---- MODULE Spec2Model ----
(***************************************************************************)
(* JobBot: one run of main_once (run_cycle.py) with the scorer of          *)
(* matcher.py, the de-duplicator and the gates of run_cycle.py, the        *)
(* fetchers' result/failure paths, the resume tailor and the emailer.      *)
(*                                                                         *)
(* Text is a sequence of tokens.  The token alphabet is chosen so that     *)
(* every keyword the code searches for is itself a token sequence and no   *)
(* token contains a keyword as a proper substring ("internship" is         *)
(* <<"intern","ship">>, "databricks" is <<"data","bricks">>), so Python's  *)
(* substring test `kw in text` is the contiguous-subsequence test below.   *)
(***************************************************************************)
EXTENDS Integers, Sequences, FiniteSets, TLC

VARIABLES cfg, pc, page, fetchLog, all_jobs, scored, smtp_user, smtp_pass,
          idx, sent_count, pdf_path, tailored, emailed, failed, gateLog

vars == <<cfg, pc, page, fetchLog, all_jobs, scored, smtp_user, smtp_pass,
          idx, sent_count, pdf_path, tailored, emailed, failed, gateLog>>

----------------------------------------------------------------------------
(* Bounds *)

\* most job dicts the sources return in one run, all sources together
MaxFetched == 3

----------------------------------------------------------------------------
(* Strings *)

\* Python's None where the other values are integers or texts
None == -1

\* str.lower(), token by token
LowerAtom(a) ==
  CASE a = "Senior" -> "senior"
    [] a = "Azure" -> "azure"
    [] a = "Data" -> "data"
    [] a = "Engineer" -> "engineer"
    [] a = "Intern" -> "intern"
    [] a = "Junior" -> "junior"
    [] a = "Hyderabad" -> "hyderabad"
    [] a = "Bangalore" -> "bangalore"
    [] a = "Microsoft" -> "microsoft"
    [] a = "Google" -> "google"
    [] a = "Bricks" -> "bricks"
    [] a = "Factory" -> "factory"
    [] a = "PySpark" -> "pyspark"
    [] a = "ETL" -> "etl"
    [] a = "SQL" -> "sql"
    [] a = "Test" -> "test"
    [] a = "TestCompany" -> "testcompany"
    [] a = "Backend" -> "backend"
    [] a = "Years" -> "years"
    [] a = "Job" -> "job"
    [] OTHER -> a

Lower(s) == [i \in DOMAIN s |-> LowerAtom(s[i])]

\* Python's `kw in text`
Contains(text, kw) ==
  \E i \in 0..(Len(text) - Len(kw)) : SubSeq(text, i + 1, i + Len(kw)) = kw

\* " ".join(parts)
RECURSIVE Join(_)
Join(parts) ==
  IF parts = <<>> THEN <<>>
  ELSE IF Len(parts) = 1 THEN parts[1]
  ELSE parts[1] \o <<" ">> \o Join(Tail(parts))

\* dict.get(key, default)
Get(d, key, default) == IF key \in DOMAIN d THEN d[key] ELSE default

\* urlparse(link).netloc: what follows the scheme up to the first "/", "?" or "#"
RECURSIVE UpToDelim(_)
UpToDelim(s) ==
  IF s = <<>> \/ Head(s) \in {"/", "?", "#"} THEN <<>>
  ELSE <<Head(s)>> \o UpToDelim(Tail(s))

Netloc(link) ==
  IF link # <<>> /\ Head(link) \in {"https://", "http://"}
  THEN UpToDelim(Tail(link))
  ELSE <<>>

----------------------------------------------------------------------------
(* run_cycle.py: the gates *)

looks_like_azure_data(text0) ==
  LET text == Lower(text0) IN
  IF Contains(text, <<"data", " ", "engineer">>) THEN TRUE
  ELSE IF Contains(text, <<"azure">>)
          /\ (Contains(text, <<"data">>) \/ Contains(text, <<"engineer">>)) THEN TRUE
  ELSE FALSE

JuniorMarkers == {"intern", "junior", "jr.", "trainee", "fresher", "entry"}

contains_junior_marker(text) == \E w \in JuniorMarkers : Contains(text, <<w>>)

Digits == {"0", "1", "2", "3", "4", "5", "6", "7", "8", "9"}

DigitVal(a) ==
  CASE a = "0" -> 0 [] a = "1" -> 1 [] a = "2" -> 2 [] a = "3" -> 3 [] a = "4" -> 4
    [] a = "5" -> 5 [] a = "6" -> 6 [] a = "7" -> 7 [] a = "8" -> 8 [] a = "9" -> 9

YearUnits == {"years", "yrs", "year"}

IsDigitAt(text, k) == k >= 1 /\ k <= Len(text) /\ text[k] \in Digits

\* \s* : the first position at or after k that is not whitespace
RECURSIVE SkipSpaces(_, _)
SkipSpaces(text, k) ==
  IF k <= Len(text) /\ text[k] = " " THEN SkipSpaces(text, k + 1) ELSE k

\* \+?\s*(?:years|yrs|year) matches starting at position k
UnitFollows(text, k) ==
  LET k1 == IF k <= Len(text) /\ text[k] = "+" THEN k + 1 ELSE k
      k2 == SkipSpaces(text, k1)
  IN k2 <= Len(text) /\ text[k2] \in YearUnits

\* number of digits (\d{1,2}, greedy) the pattern takes when it matches at i; 0: no match at i
YearsMatchLen(text, i) ==
  IF IsDigitAt(text, i) /\ IsDigitAt(text, i + 1) /\ UnitFollows(text, i + 2) THEN 2
  ELSE IF IsDigitAt(text, i) /\ UnitFollows(text, i + 1) THEN 1
  ELSE 0

\* int(m.group(1)) of the match at i
YearsValueAt(text, i) ==
  IF YearsMatchLen(text, i) = 2 THEN 10 * DigitVal(text[i]) + DigitVal(text[i + 1])
  ELSE DigitVal(text[i])

\* positions where the pattern matches
YearsMatches(text) == {i \in 1..Len(text) : YearsMatchLen(text, i) > 0}

SetMin(S) == CHOOSE x \in S : \A y \in S : x <= y

\* re.search: the leftmost match
parse_years(text0) ==
  IF text0 = <<>> THEN None
  ELSE LET text == Lower(text0) IN
       IF YearsMatches(text) = {} THEN None
       ELSE YearsValueAt(text, SetMin(YearsMatches(text)))

\* the literal 5 of `years < 5`
MinYears == 5

\* combined_text of the processing loop
combined_text(job) ==
  Lower(Join(<<Get(job, "title", <<>>), Get(job, "snippet", <<>>),
               Get(job, "company", <<>>), Get(job, "location", <<>>)>>))

----------------------------------------------------------------------------
(* matcher.py: the scorer *)

product_signals ==
  <<"product", "saas", "startup", "platform", "stripe", "airbnb",
    "google", "microsoft", "amazon", "chargebee", "razorpay",
    "browserstack", "freshworks", "postman", "flipkart", "zoho">>

is_product_company(job) ==
  LET domain == Lower(Netloc(Get(job, "link", <<>>)))
      company == Lower(Get(job, "company", <<>>))
  IN \E k \in DOMAIN product_signals :
        Contains(domain, <<product_signals[k]>>) \/ Contains(company, <<product_signals[k]>>)

RECURSIVE SumSeq(_)
SumSeq(s) == IF s = <<>> THEN 0 ELSE Head(s) + SumSeq(Tail(s))

LocationWeight == 12

location_score(c, job) ==
  LET title == Lower(Get(job, "title", <<>>))
      link == Lower(Get(job, "link", <<>>))
      locs == Get(c, "location_priority", <<>>)
  IN SumSeq([k \in DOMAIN locs |->
               IF Contains(title, Lower(locs[k])) \/ Contains(link, Lower(locs[k]))
               THEN (Len(locs) - (k - 1)) * LocationWeight ELSE 0])

VisaKeywords == {<<"visa">>, <<"sponsor">>, <<"sponsor", "ship">>, <<"relocation">>,
                 <<"work", " ", "permit">>}

VisaBonus == 20

visa_score(c, job) ==
  LET snippet == Lower(Get(job, "snippet", <<>>)) IN
  IF ~Get(c, "global_allow_visa_sponsor", TRUE) THEN 0
  ELSE IF \E kw \in VisaKeywords : Contains(snippet, kw) THEN VisaBonus
  ELSE 0

KeywordWeight == 6

keyword_score(c, job) ==
  LET text == Lower(Get(job, "title", <<>>) \o <<" ">> \o Get(job, "snippet", <<>>))
      kws == Get(c, "required_keywords", <<>>)
  IN SumSeq([k \in DOMAIN kws |-> IF Contains(text, Lower(kws[k])) THEN KeywordWeight ELSE 0])

\* an applicants value int() rejects
Malformed == -2

DefaultMaxApplicants == 30

LowApplicantBonus == 10

low_applicant_score(c, job) ==
  LET applicants == Get(job, "applicants", None) IN
  IF applicants = None THEN 0
  ELSE IF applicants = Malformed THEN 0
  ELSE IF applicants <= Get(c, "max_applicants_for_low", DefaultMaxApplicants)
       THEN LowApplicantBonus
  ELSE 0

ProductStrictBonus == 20

ProductNeutralBonus == 10

\* the value score_job stores in job["score"]
ScoreOf(c, job) ==
  location_score(c, job) + keyword_score(c, job) + visa_score(c, job)
  + low_applicant_score(c, job)
  + (IF Get(c, "product_company_only", TRUE) /\ is_product_company(job)
     THEN ProductStrictBonus
     ELSE IF is_product_company(job) THEN ProductNeutralBonus
     ELSE 0)

\* score_job: sets the key "score" and nothing else
score_job(c, job) ==
  [k \in (DOMAIN job) \cup {"score"} |-> IF k = "score" THEN ScoreOf(c, job) ELSE job[k]]

----------------------------------------------------------------------------
(* run_cycle.py: the de-duplicator *)

\* the link is lower-cased too
DedupKey_LowerLink(j) ==
  <<Lower(Get(j, "title", <<>>)), Lower(Get(j, "company", <<>>)), Lower(Get(j, "link", <<>>))>>

DedupKey(j) ==
  <<Lower(Get(j, "title", <<>>)), Lower(Get(j, "company", <<>>)), Get(j, "link", <<>>)>>

\* out.insert(0, j) instead of out.append(j)
RECURSIVE DedupLoop_Prepend(_, _, _)
DedupLoop_Prepend(jobs, seen, out) ==
  IF jobs = <<>> THEN out
  ELSE LET key == DedupKey(Head(jobs)) IN
       IF key \notin seen
       THEN DedupLoop_Prepend(Tail(jobs), seen \cup {key}, <<Head(jobs)>> \o out)
       ELSE DedupLoop_Prepend(Tail(jobs), seen, out)

RECURSIVE DedupLoop(_, _, _)
DedupLoop(jobs, seen, out) ==
  IF jobs = <<>> THEN out
  ELSE LET key == DedupKey(Head(jobs)) IN
       IF key \notin seen
       THEN DedupLoop(Tail(jobs), seen \cup {key}, Append(out, Head(jobs)))
       ELSE DedupLoop(Tail(jobs), seen, out)

\* the list goes through as it came
safe_jobs_deduplicate_Keep(jobs) == jobs

safe_jobs_deduplicate(jobs) == DedupLoop(jobs, {}, <<>>)

----------------------------------------------------------------------------
(* Inputs: the configuration file, the company list, what the sites return *)

Sp(words) == Join([i \in DOMAIN words |-> <<words[i]>>])

Configs ==
  { [email |-> "me@example.com",
     location_priority |-> << <<"Hyderabad">>, <<"Bangalore">> >>,
     required_keywords |-> << <<"Azure">>, <<"data", "bricks">>, <<"SQL">> >>,
     global_allow_visa_sponsor |-> TRUE, product_company_only |-> TRUE,
     max_applicants_for_low |-> 30],
    [score_threshold |-> 0, email |-> "me@example.com",
     location_priority |-> << <<"Bangalore">>, <<"Hyderabad">> >>,
     required_keywords |-> << <<"data", " ", "engineer">> >>,
     global_allow_visa_sponsor |-> FALSE, product_company_only |-> FALSE] }

\* lines of company_list.txt that load_company_pages keeps
load_company_pages ==
  << <<"https://", "careers", ".", "microsoft", ".", "com", "/", "jobs">> >>

IndeedLink(n) == <<"https://", "in", ".", "indeed", ".", "com", "/", "rc", "/", n>>

\* the fetcher initialises a score
IndeedJob_WithScore(title, company, link, snippet) ==
  [source |-> "indeed", title |-> title, company |-> company, link |-> link,
   snippet |-> snippet, posted_at |-> 0, location |-> <<"Hyderabad">>, score |-> 0]

\* the dict fetch_indeed appends for one result card
IndeedJob(title, company, link, snippet) ==
  [source |-> "indeed", title |-> title, company |-> company, link |-> link,
   snippet |-> snippet, posted_at |-> 0, location |-> <<"Hyderabad">>]

IndeedPool ==
  { IndeedJob(Sp(<<"Senior", "Azure", "Data", "Engineer">>), <<"Microsoft">>, IndeedLink("Job"),
              Join(<< <<"Azure">>, <<"Data", "bricks">>, <<"SQL">>, <<"8", "+">>, <<"years">>,
                      <<"or">>, <<"3">>, <<"years">> >>)),
    IndeedJob(Sp(<<"senior", "azure", "data", "engineer">>), <<"microsoft">>, IndeedLink("Job"),
              <<>>),
    IndeedJob(Sp(<<"Senior", "Azure", "Data", "Engineer">>), <<"Microsoft">>, IndeedLink("job"),
              Join(<< <<"Azure">>, <<"SQL">>, <<"1", "2">>, <<"yrs">> >>)),
    IndeedJob(Sp(<<"Data", "Engineer", "Intern">>), <<"Microsoft">>, IndeedLink("2"),
              Join(<< <<"Azure">>, <<"intern", "ship">>, <<"program">>, <<"visa">>,
                      <<"sponsor", "ship">> >>)),
    IndeedJob(Sp(<<"Azure", "Data", "Engineer", "Hyderabad">>), <<"Google">>, IndeedLink("4"),
              Sp(<<"3", "years", "experience", "required", "visa">>)) }

\* the dict fetch_company_jobs appends for one anchor of the page at url
CompanyJob(url, href, text) ==
  [source |-> "company", title |-> text, company |-> Netloc(url), link |-> href,
   snippet |-> text, posted_at |-> 0, location |-> <<>>]

CompanyPool(url) ==
  { CompanyJob(url, url \o <<"/", "1">>, Sp(<<"Senior", "Data", "Engineer", "Hyderabad">>)),
    CompanyJob(url, url \o <<"/", "2">>, Sp(<<"Backend", "Engineer">>)) }

\* lists of at most n elements of S
ListsUpTo(S, n) == UNION {[1..k -> S] : k \in 0..n}

\* fetch_company_jobs keeps one anchor per link (seen_links)
DistinctLinks(jobs) == \A i, j \in DOMAIN jobs : i # j => jobs[i].link # jobs[j].link

\* posted_at is the time of the fetch: no two fetched dicts carry the same one
Stamp(jobs, sourceNo) ==
  [i \in DOMAIN jobs |-> [jobs[i] EXCEPT !.posted_at = 10 * sourceNo + i]]

----------------------------------------------------------------------------
(* fetchers.py and the try/except around each fetch in main_once *)

\* what the fetcher returns: [] when the request or the parse fails
FetchReturn(outcome, jobs) ==
  IF outcome \in {"request_failed", "parse_failed"} THEN <<>> ELSE jobs

\* the except branch starts the list over
Collect_DropOnRaise(acc, outcome, ret) ==
  IF outcome = "raised" THEN <<>> ELSE acc \o ret

\* all_jobs += fetch(...) inside try/except: an exception leaves all_jobs as it was
Collect(acc, outcome, ret) ==
  IF outcome = "raised" THEN acc ELSE acc \o ret

FailOutcomes == {"request_failed", "parse_failed", "raised"}

LogEntry(src, outcome, ret) == [source |-> src, outcome |-> outcome, jobs |-> ret]

AfterFetch(p) == IF p < Len(load_company_pages) THEN "fetch_company" ELSE "dedupe"

Unset == "<unset>"

EnvValues == {Unset, "", "secret"}

DefaultThreshold == 30

Init ==
  /\ cfg \in Configs
  /\ pc = "fetch_indeed"
  /\ page = 0
  /\ fetchLog = <<>>
  /\ all_jobs = <<>>
  /\ scored = <<>>
  /\ smtp_user = Unset
  /\ smtp_pass = Unset
  /\ idx = 0
  /\ sent_count = 0
  /\ pdf_path = None
  /\ tailored = <<>>
  /\ emailed = <<>>
  /\ failed = {}
  /\ gateLog = <<>>

FetchIndeedOk ==
  /\ pc = "fetch_indeed"
  /\ \E jobs \in ListsUpTo(IndeedPool, MaxFetched - Len(all_jobs)) :
       LET ret == FetchReturn("ok", Stamp(jobs, 0)) IN
       /\ all_jobs' = Collect(all_jobs, "ok", ret)
       /\ fetchLog' = Append(fetchLog, LogEntry("indeed", "ok", ret))
  /\ pc' = AfterFetch(0)
  /\ UNCHANGED <<cfg, page, scored, smtp_user, smtp_pass, idx, sent_count, pdf_path,
                 tailored, emailed, failed, gateLog>>

FetchIndeedFail ==
  /\ pc = "fetch_indeed"
  /\ \E outcome \in FailOutcomes :
       LET ret == FetchReturn(outcome, <<>>) IN
       /\ all_jobs' = Collect(all_jobs, outcome, ret)
       /\ fetchLog' = Append(fetchLog, LogEntry("indeed", outcome, ret))
  /\ pc' = AfterFetch(0)
  /\ UNCHANGED <<cfg, page, scored, smtp_user, smtp_pass, idx, sent_count, pdf_path,
                 tailored, emailed, failed, gateLog>>

FetchCompanyOk ==
  /\ pc = "fetch_company"
  /\ LET url == load_company_pages[page + 1] IN
     \E jobs \in ListsUpTo(CompanyPool(url), MaxFetched - Len(all_jobs)) :
       /\ DistinctLinks(jobs)
       /\ LET ret == FetchReturn("ok", Stamp(jobs, page + 1)) IN
          /\ all_jobs' = Collect(all_jobs, "ok", ret)
          /\ fetchLog' = Append(fetchLog, LogEntry("company", "ok", ret))
  /\ page' = page + 1
  /\ pc' = AfterFetch(page + 1)
  /\ UNCHANGED <<cfg, scored, smtp_user, smtp_pass, idx, sent_count, pdf_path,
                 tailored, emailed, failed, gateLog>>

FetchCompanyFail ==
  /\ pc = "fetch_company"
  /\ \E outcome \in FailOutcomes :
       LET ret == FetchReturn(outcome, <<>>) IN
       /\ all_jobs' = Collect(all_jobs, outcome, ret)
       /\ fetchLog' = Append(fetchLog, LogEntry("company", outcome, ret))
  /\ page' = page + 1
  /\ pc' = AfterFetch(page + 1)
  /\ UNCHANGED <<cfg, scored, smtp_user, smtp_pass, idx, sent_count, pdf_path,
                 tailored, emailed, failed, gateLog>>

Dedupe ==
  /\ pc = "dedupe"
  /\ all_jobs' = safe_jobs_deduplicate(all_jobs)
  /\ pc' = "score"
  /\ UNCHANGED <<cfg, page, fetchLog, scored, smtp_user, smtp_pass, idx, sent_count,
                 pdf_path, tailored, emailed, failed, gateLog>>

\* score_job writes into the dicts of all_jobs; scored lists the same dicts
Score ==
  /\ pc = "score"
  /\ scored' = [i \in DOMAIN all_jobs |-> score_job(cfg, all_jobs[i])]
  /\ all_jobs' = scored'
  /\ pc' = "creds"
  /\ UNCHANGED <<cfg, page, fetchLog, smtp_user, smtp_pass, idx, sent_count, pdf_path,
                 tailored, emailed, failed, gateLog>>

\* only the user name is tested
CredsMissing_UserOnly(u, p) == u \in {Unset, ""}

\* `not smtp_user or not smtp_pass`
CredsMissing(u, p) == u \in {Unset, ""} \/ p \in {Unset, ""}

\* where main_once goes after reading the credentials
AfterCreds(u, p) == IF CredsMissing(u, p) THEN "done" ELSE "loop"

ReadCredsMissing ==
  /\ pc = "creds"
  /\ \E u, p \in EnvValues :
       /\ CredsMissing(u, p)
       /\ smtp_user' = u
       /\ smtp_pass' = p
       /\ pc' = AfterCreds(u, p)
  /\ UNCHANGED <<cfg, page, fetchLog, all_jobs, scored, idx, sent_count, pdf_path,
                 tailored, emailed, failed, gateLog>>

ReadCredsPresent ==
  /\ pc = "creds"
  /\ \E u, p \in EnvValues :
       /\ ~CredsMissing(u, p)
       /\ smtp_user' = u
       /\ smtp_pass' = p
       /\ pc' = AfterCreds(u, p)
  /\ sent_count' = 0
  /\ idx' = 1
  /\ UNCHANGED <<cfg, page, fetchLog, all_jobs, scored, pdf_path,
                 tailored, emailed, failed, gateLog>>

----------------------------------------------------------------------------
(* main_once: the processing loop *)

\* GateVerdict without the junior-marker test
GateVerdict_NoJunior(c, job) ==
  LET text == combined_text(job)
      years == parse_years(text)
  IN IF ~looks_like_azure_data(text) THEN "not_azure"
     ELSE IF years # None /\ years < MinYears THEN "years"
     ELSE IF Get(job, "score", 0) < Get(c, "score_threshold", DefaultThreshold) THEN "low_score"
     ELSE "pass"

\* GateVerdict with the years comparison turned around
GateVerdict_YearsFlipped(c, job) ==
  LET text == combined_text(job)
      years == parse_years(text)
  IN IF ~looks_like_azure_data(text) THEN "not_azure"
     ELSE IF contains_junior_marker(text) THEN "junior"
     ELSE IF years # None /\ years > MinYears THEN "years"
     ELSE IF Get(job, "score", 0) < Get(c, "score_threshold", DefaultThreshold) THEN "low_score"
     ELSE "pass"

\* the four `continue` tests of one iteration, in the order the code makes them
GateVerdict(c, job) ==
  LET text == combined_text(job)
      years == parse_years(text)
  IN IF ~looks_like_azure_data(text) THEN "not_azure"
     ELSE IF contains_junior_marker(text) THEN "junior"
     ELSE IF years # None /\ years < MinYears THEN "years"
     ELSE IF Get(job, "score", 0) < Get(c, "score_threshold", DefaultThreshold) THEN "low_score"
     ELSE "pass"

InLoop == pc = "loop" /\ idx <= Len(scored)

\* `continue`: the job is neither tailored nor emailed
SkipStep(verdict) ==
  /\ gateLog' = Append(gateLog, verdict)
  /\ idx' = idx + 1
  /\ UNCHANGED <<cfg, pc, page, fetchLog, all_jobs, scored, smtp_user, smtp_pass,
                 sent_count, pdf_path, tailored, emailed, failed>>

SkipNotAzure ==
  /\ InLoop
  /\ GateVerdict(cfg, scored[idx]) = "not_azure"
  /\ SkipStep("not_azure")

SkipJunior ==
  /\ InLoop
  /\ GateVerdict(cfg, scored[idx]) = "junior"
  /\ SkipStep("junior")

SkipYears ==
  /\ InLoop
  /\ GateVerdict(cfg, scored[idx]) = "years"
  /\ SkipStep("years")

SkipLowScore ==
  /\ InLoop
  /\ GateVerdict(cfg, scored[idx]) = "low_score"
  /\ SkipStep("low_score")

PassGates ==
  /\ InLoop
  /\ GateVerdict(cfg, scored[idx]) = "pass"
  /\ gateLog' = Append(gateLog, "pass")
  /\ pc' = "tailor"
  /\ UNCHANGED <<cfg, page, fetchLog, all_jobs, scored, smtp_user, smtp_pass, idx,
                 sent_count, pdf_path, tailored, emailed, failed>>

\* the loop body without its `except`: the exception leaves main_once
OnJobFailure_Abort == "crashed"

\* `except Exception` of the loop body: log, go on with the next job
OnJobFailure == "loop"

\* generate_tailored_copy returns (text_resume, pdf_path): the document is on disk.
\* tailor_resume.py defines the generator under the name generate_for_job; the
\* call of run_cycle.py is modelled as a call of that function.
TailorOk ==
  /\ pc = "tailor"
  /\ tailored' = Append(tailored, idx)
  /\ pdf_path' = idx
  /\ pc' = "send"
  /\ UNCHANGED <<cfg, page, fetchLog, all_jobs, scored, smtp_user, smtp_pass, idx,
                 sent_count, emailed, failed, gateLog>>

\* the tailoring exception is swallowed and the iteration goes on to the email
TailorRaise_ThenSend ==
  /\ pc = "tailor"
  /\ failed' = failed \cup {idx}
  /\ pc' = "send"
  /\ UNCHANGED <<cfg, page, fetchLog, all_jobs, scored, smtp_user, smtp_pass, idx,
                 sent_count, pdf_path, tailored, emailed, gateLog>>

\* generate_tailored_copy raises (merge_with_template: template not found)
TailorRaise ==
  /\ pc = "tailor"
  /\ failed' = failed \cup {idx}
  /\ idx' = idx + 1
  /\ pc' = OnJobFailure
  /\ UNCHANGED <<cfg, page, fetchLog, all_jobs, scored, smtp_user, smtp_pass,
                 sent_count, pdf_path, tailored, emailed, gateLog>>

SendOk ==
  /\ pc = "send"
  /\ emailed' = Append(emailed, idx)
  /\ sent_count' = sent_count + 1
  /\ idx' = idx + 1
  /\ pc' = "loop"
  /\ UNCHANGED <<cfg, page, fetchLog, all_jobs, scored, smtp_user, smtp_pass,
                 pdf_path, tailored, failed, gateLog>>

\* send_email re-raises what the SMTP session raised
SendRaise ==
  /\ pc = "send"
  /\ failed' = failed \cup {idx}
  /\ idx' = idx + 1
  /\ pc' = OnJobFailure
  /\ UNCHANGED <<cfg, page, fetchLog, all_jobs, scored, smtp_user, smtp_pass,
                 sent_count, pdf_path, tailored, emailed, gateLog>>

\* index 0 stands for test_job in the log of written documents
TestJobIdx == 0

\* the sample step without its `if sent_count == 0`
LoopEnd_AlwaysSample ==
  /\ pc = "loop"
  /\ idx > Len(scored)
  /\ pc' = "sample"
  /\ UNCHANGED <<cfg, page, fetchLog, all_jobs, scored, smtp_user, smtp_pass, idx,
                 sent_count, pdf_path, tailored, emailed, failed, gateLog>>

LoopEnd ==
  /\ pc = "loop"
  /\ idx > Len(scored)
  /\ pc' = IF sent_count = 0 THEN "sample" ELSE "complete"
  /\ UNCHANGED <<cfg, page, fetchLog, all_jobs, scored, smtp_user, smtp_pass, idx,
                 sent_count, pdf_path, tailored, emailed, failed, gateLog>>

SampleOk ==
  /\ pc = "sample"
  /\ tailored' = Append(tailored, TestJobIdx)
  /\ pdf_path' = TestJobIdx
  /\ pc' = "complete"
  /\ UNCHANGED <<cfg, page, fetchLog, all_jobs, scored, smtp_user, smtp_pass, idx,
                 sent_count, emailed, failed, gateLog>>

SampleRaise ==
  /\ pc = "sample"
  /\ pc' = "complete"
  /\ UNCHANGED <<cfg, page, fetchLog, all_jobs, scored, smtp_user, smtp_pass, idx,
                 sent_count, pdf_path, tailored, emailed, failed, gateLog>>

\* print("Run complete. Emails sent: ...")
Complete ==
  /\ pc = "complete"
  /\ pc' = "done"
  /\ UNCHANGED <<cfg, page, fetchLog, all_jobs, scored, smtp_user, smtp_pass, idx,
                 sent_count, pdf_path, tailored, emailed, failed, gateLog>>

Next ==
  \/ FetchIndeedOk
  \/ FetchIndeedFail
  \/ FetchCompanyOk
  \/ FetchCompanyFail
  \/ Dedupe
  \/ Score
  \/ ReadCredsMissing
  \/ ReadCredsPresent
  \/ SkipNotAzure
  \/ SkipJunior
  \/ SkipYears
  \/ SkipLowScore
  \/ PassGates
  \/ TailorOk
  \/ TailorRaise
  \/ SendOk
  \/ SendRaise
  \/ LoopEnd
  \/ SampleOk
  \/ SampleRaise
  \/ Complete

Spec == Init /\ [][Next]_vars

----------------------------------------------------------------------------
(* Properties *)

Range(s) == {s[i] : i \in DOMAIN s}

Phase(pcs) == pc \in pcs

Fetching == {"fetch_indeed", "fetch_company"}

\* the jobs of the run whose documents were written / whose emails went out
TailoredJobs == Range(tailored) \ {TestJobIdx}

EmailedJobs == Range(emailed)

\* what the sources that answered have returned, in fetch order
RECURSIVE OkJobs(_)
OkJobs(log) ==
  IF log = <<>> THEN <<>>
  ELSE (IF Head(log).outcome = "ok" THEN Head(log).jobs ELSE <<>>) \o OkJobs(Tail(log))

Threshold == Get(cfg, "score_threshold", DefaultThreshold)

\* the four gate conditions on a scored job, as the orchestrator's contract states them
Haystack(job) ==
  Lower(job.title \o <<" ">> \o job.snippet \o <<" ">> \o job.company \o <<" ">> \o job.location)

RelevanceHolds(job) ==
  \/ Contains(Haystack(job), <<"data", " ", "engineer">>)
  \/ /\ Contains(Haystack(job), <<"azure">>)
     /\ Contains(Haystack(job), <<"data">>) \/ Contains(Haystack(job), <<"engineer">>)

NoJuniorWord(job) ==
  \A w \in {"intern", "junior", "jr.", "trainee", "fresher", "entry"} :
     ~Contains(Haystack(job), <<w>>)

\* the leftmost years-of-experience figure of the haystack, None when there is none
FirstFigure(job) ==
  LET h == Haystack(job)
      at == {i \in 1..Len(h) : YearsMatchLen(h, i) > 0}
  IN IF at = {} THEN None ELSE YearsValueAt(h, SetMin(at))

\* every figure the pattern can extract from the haystack
AllFigures(job) ==
  LET h == Haystack(job) IN {YearsValueAt(h, i) : i \in {k \in 1..Len(h) : YearsMatchLen(h, k) > 0}}

ExperienceHolds(job) == FirstFigure(job) = None \/ FirstFigure(job) >= MinYears

ScoreHolds(job) == job.score >= Threshold

AllGatesHold(job) ==
  RelevanceHolds(job) /\ NoJuniorWord(job) /\ ExperienceHolds(job) /\ ScoreHolds(job)

\* C1: a job is tailored or emailed only if it is relevant, carries no junior
\* marker, has no parsed years figure below the minimum and scores at least
\* the threshold; a job failing any gate is never tailored or emailed.
C1_OnlyGatedJobsProcessed ==
  /\ \A k \in TailoredJobs \cup EmailedJobs : AllGatesHold(scored[k])
  /\ Phase({"tailor", "send"}) => AllGatesHold(scored[idx])

\* a run that emailed one job and turned away another whose score met the threshold
C1_Witness ==
  /\ pc = "done"
  /\ EmailedJobs # {}
  /\ \E k \in DOMAIN gateLog :
       /\ gateLog[k] = "junior"
       /\ ScoreHolds(scored[k])
       /\ k \notin TailoredJobs \cup EmailedJobs

\* C2 as stated: a job from whose haystack some figure below the minimum can be
\* extracted is rejected whatever its score, and the experience gate rejects
\* no job without a figure.
C2_AnyFigureRejects ==
  \A k \in DOMAIN gateLog :
     /\ (\E y \in AllFigures(scored[k]) : y < MinYears) => gateLog[k] # "pass"
     /\ AllFigures(scored[k]) = {} => gateLog[k] # "years"

\* C2 amended: a job whose leftmost extractable figure is below the minimum is
\* rejected whatever its score (never tailored, never emailed), and the
\* experience gate rejects no job without a figure.
C2_FirstFigureRejects ==
  \A k \in DOMAIN gateLog :
     /\ (FirstFigure(scored[k]) # None /\ FirstFigure(scored[k]) < MinYears)
          => /\ gateLog[k] # "pass"
             /\ k \notin TailoredJobs \cup EmailedJobs
     /\ AllFigures(scored[k]) = {} => gateLog[k] # "years"

\* a relevant, non-junior job scoring at least the threshold, turned away for its years
C2_Witness ==
  \E k \in DOMAIN gateLog :
     /\ gateLog[k] = "years"
     /\ FirstFigure(scored[k]) = 3
     /\ ScoreHolds(scored[k])
     /\ pc = "done"

\* both SMTP variables are set and non-empty
CredsPresent == smtp_user \notin {Unset, ""} /\ smtp_pass \notin {Unset, ""}

\* C3: a tailoring or emailing failure for job k is caught: no email is counted
\* for k, the loop goes on to the jobs after k, every job of the scored list is
\* put through the gates before the run ends, and the run is never aborted.
C3_FailureIsolated ==
  /\ pc # "crashed"
  /\ failed \cap EmailedJobs = {}
  /\ sent_count = Len(emailed)
  /\ \A k \in failed : idx > k
  /\ (CredsPresent /\ Phase({"sample", "complete", "done"})) => Len(gateLog) = Len(scored)

\* a finished run in which a job failed and a later job was emailed
C3_Witness ==
  /\ pc = "done"
  /\ \E k \in failed : \E m \in EmailedJobs : m > k

\* C4: with SMTP_USER or SMTP_PASS absent or empty the run returns at once:
\* the loop and the sample step are never entered, nothing is tailored,
\* emailed or written.
C4_MissingCredsStopRun ==
  /\ Phase({"loop", "tailor", "send", "sample", "complete"}) => CredsPresent
  /\ (pc = "done" /\ ~CredsPresent)
       => /\ tailored = <<>>
          /\ emailed = <<>>
          /\ gateLog = <<>>
          /\ sent_count = 0
          /\ pdf_path = None

\* a run that returned for an empty password although a job would have passed the gates
C4_Witness ==
  /\ pc = "done"
  /\ smtp_user = "secret"
  /\ smtp_pass = ""
  /\ \E k \in DOMAIN scored : GateVerdict(cfg, scored[k]) = "pass"

C6_DedupIdempotent ==
  LET once == safe_jobs_deduplicate(OkJobs(fetchLog)) IN
  /\ safe_jobs_deduplicate(once) = once
  /\ ~Phase(Fetching \cup {"dedupe"}) => safe_jobs_deduplicate(all_jobs) = all_jobs

\* the list held duplicates and at least two distinct jobs
C6_Witness ==
  /\ pc = "score"
  /\ Len(all_jobs) >= 2
  /\ Len(all_jobs) < Len(OkJobs(fetchLog))

\* the identity of a record for de-duplication
Identity(j) == <<Lower(j.title), Lower(j.company), j.link>>

\* positions of the input that hold the first record of their identity
FirstOccurrences(L) == {i \in DOMAIN L : \A j \in 1..(i - 1) : Identity(L[j]) # Identity(L[i])}

\* the n-th smallest element of a set of naturals
RECURSIVE Nth(_, _)
Nth(S, n) == IF n = 1 THEN SetMin(S) ELSE Nth(S \ {SetMin(S)}, n - 1)

\* C7: the de-duplicated list holds no two records of one (lower-cased title,
\* lower-cased company, raw link) identity, one record for every identity of
\* the input, namely its first occurrence, in input order.
C7_DedupIdentity ==
  pc = "score" =>
    LET L == OkJobs(fetchLog)
        out == all_jobs
        F == FirstOccurrences(L)
    IN /\ \A i, j \in DOMAIN out : i # j => Identity(out[i]) # Identity(out[j])
       /\ {Identity(out[i]) : i \in DOMAIN out} = {Identity(L[i]) : i \in DOMAIN L}
       /\ Len(out) = Cardinality(F)
       /\ \A n \in DOMAIN out : out[n] = L[Nth(F, n)]

\* two records differing in letter case of the title were collapsed to the first,
\* and a record after them was kept
C7_Witness ==
  /\ pc = "score"
  /\ LET L == OkJobs(fetchLog) IN
     /\ Len(L) >= 3
     /\ L[1].title # L[2].title
     /\ Identity(L[1]) = Identity(L[2])
     /\ all_jobs = <<L[1]>> \o SubSeq(L, 3, Len(L))

\* every record the run holds: fetched, collected, scored
HeldRecords == Range(all_jobs) \cup Range(scored) \cup UNION {Range(fetchLog[i].jobs) : i \in DOMAIN fetchLog}

BeforeScoring == Phase(Fetching \cup {"dedupe", "score"})

\* C8: no fetched record has a score before score_job has processed it, and no
\* step after scoring changes a scored record (its score, or any other key).
C8_ScoreWriteOnce ==
  /\ [](BeforeScoring => \A j \in HeldRecords : "score" \notin DOMAIN j)
  /\ [](~BeforeScoring => \A k \in DOMAIN scored : scored[k].score = ScoreOf(cfg, all_jobs[k]))
  /\ [][~BeforeScoring => (scored' = scored /\ all_jobs' = all_jobs)]_vars

\* gating, tailoring, emailing and a caught failure have all happened after scoring
C8_Witness ==
  /\ pc = "done"
  /\ EmailedJobs # {}
  /\ failed # {}
  /\ \E k \in DOMAIN gateLog : gateLog[k] # "pass"

\* C9: for every scored record whose title contains "data engineer" (any case)
\* the title bonus fires: the score exceeds the sum of the other signals by the bonus.
C9_TitleBonusFires ==
  \A k \in DOMAIN scored :
     Contains(Lower(scored[k].title), <<"data", " ", "engineer">>)
       => scored[k].score >
            location_score(cfg, scored[k]) + keyword_score(cfg, scored[k])
            + visa_score(cfg, scored[k]) + low_applicant_score(cfg, scored[k])
            + (IF is_product_company(scored[k])
               THEN (IF Get(cfg, "product_company_only", TRUE)
                     THEN ProductStrictBonus ELSE ProductNeutralBonus)
               ELSE 0)

\* the evaluation order of the signals
SignalOrder ==
  <<"title_bonus", "seniority", "skill_keywords", "location", "visa",
    "product_company", "low_applicant", "base_presence">>

SignalPos(label) == CHOOSE n \in DOMAIN SignalOrder : SignalOrder[n] = label

\* C10: every scored record carries matchedSignals, the labels of the signals
\* that fired, in evaluation order.
C10_MatchedSignalsOrdered ==
  \A k \in DOMAIN scored :
     /\ "matchedSignals" \in DOMAIN scored[k]
     /\ \A i, j \in DOMAIN scored[k].matchedSignals :
          i < j => SignalPos(scored[k].matchedSignals[i]) < SignalPos(scored[k].matchedSignals[j])


\* the weight of the location at position k of the priority list
ListedWeight(k) == (Len(Get(cfg, "location_priority", <<>>)) - (k - 1)) * LocationWeight

\* the location signal when every listed location found in the haystack counts
HaystackLocationScore(job) ==
  LET locs == Get(cfg, "location_priority", <<>>) IN
  SumSeq([k \in DOMAIN locs |->
            IF Contains(Haystack(job), Lower(locs[k])) THEN ListedWeight(k) ELSE 0])

\* C11: every listed location found in the haystack (title, snippet, company or
\* location field) adds its weight, which decreases with list position, the
\* other entries add nothing; a job whose location field names a preferred
\* location receives that location's weight.
C11_LocationFromHaystack ==
  /\ \A k \in DOMAIN Get(cfg, "location_priority", <<>>) :
        k > 1 => ListedWeight(k) < ListedWeight(k - 1)
  /\ \A k \in DOMAIN scored :
        scored[k].score =
          HaystackLocationScore(scored[k]) + keyword_score(cfg, scored[k])
          + visa_score(cfg, scored[k]) + low_applicant_score(cfg, scored[k])
          + (IF is_product_company(scored[k])
             THEN (IF Get(cfg, "product_company_only", TRUE)
                   THEN ProductStrictBonus ELSE ProductNeutralBonus)
             ELSE 0)

\* C12: an email for a job goes out only from the iteration in which the
\* document of that job was just written; when tailoring raises, the iteration
\* ends with no email and sent_count as it was.
C12_TailorBeforeEmail ==
  /\ [](EmailedJobs \subseteq TailoredJobs)
  /\ [](pc = "send" => (tailored # <<>> /\ tailored[Len(tailored)] = idx /\ pdf_path = idx))
  /\ [](\A k \in failed \ TailoredJobs : k \notin EmailedJobs)
  /\ [][emailed' # emailed
          => (pc = "send" /\ emailed' = Append(emailed, idx) /\ sent_count' = sent_count + 1)]_vars
  /\ [][(pc = "tailor" /\ tailored' = tailored)
          => (emailed' = emailed /\ sent_count' = sent_count /\ idx' = idx + 1 /\ pc' = "loop")]_vars

\* a finished run in which tailoring raised for one job and another job was emailed
C12_Witness ==
  /\ pc = "done"
  /\ failed \ TailoredJobs # {}
  /\ EmailedJobs # {}
  /\ sent_count = Len(emailed)

\* C13: no two emails of a run are for the same (lower-cased title, lower-cased
\* company, link) identity, sent_count is the number of emails that went out,
\* and it never exceeds the number of de-duplicated jobs.
C13_AtMostOnceEmail ==
  /\ \A i, j \in DOMAIN emailed :
        i # j => Identity(scored[emailed[i]]) # Identity(scored[emailed[j]])
  /\ sent_count = Cardinality(EmailedJobs)
  /\ sent_count <= Len(all_jobs)
  /\ ~Phase(Fetching \cup {"dedupe"}) => Len(all_jobs) <= Len(OkJobs(fetchLog))

\* the sources returned two records of one identity, one email went out for it
\* and one for another job
C13_Witness ==
  /\ pc = "done"
  /\ sent_count = 2
  /\ LET L == OkJobs(fetchLog) IN
     /\ Len(L) = 3
     /\ Identity(L[1]) = Identity(L[2])
     /\ Len(all_jobs) = 2

\* C14: the sample document for the test job is attempted exactly when the
\* loop has ended with credentials present and sent_count = 0, never after an
\* email went out; its failure is caught, and the test job is never emailed.
C14_SampleFallback ==
  /\ [](pc = "sample" => (CredsPresent /\ sent_count = 0 /\ emailed = <<>> /\ idx > Len(scored)))
  /\ [](TestJobIdx \in Range(tailored) => (CredsPresent /\ sent_count = 0 /\ emailed = <<>>))
  /\ [](TestJobIdx \notin EmailedJobs)
  /\ [][(pc = "loop" /\ pc' \notin {"loop", "tailor"})
          => (pc' = (IF sent_count = 0 THEN "sample" ELSE "complete"))]_vars
  /\ [][pc = "sample" => (pc' = "complete" /\ emailed' = emailed /\ sent_count' = sent_count)]_vars
  /\ [][(TestJobIdx \in Range(tailored') /\ TestJobIdx \notin Range(tailored))
          => (pc = "sample")]_vars

\* every send of the run failed, and the sample document was written at the end
C14_Witness ==
  /\ pc = "done"
  /\ sent_count = 0
  /\ failed \cap TailoredJobs # {}
  /\ TestJobIdx \in Range(tailored)

====
